---- MODULE Spec2Model ----
(***************************************************************************)
(* PhotoSwipeSlideshow (src/photoswipe-slideshow.esm.js): the slideshow    *)
(* controller attached to a PhotoSwipe lightbox, as a state machine.       *)
(* One action per event handler, timer callback or promise callback; each  *)
(* handler is an operator on the record of the controller's state, named   *)
(* as in the source.                                                       *)
(***************************************************************************)
EXTENDS Integers, Sequences, FiniteSets, TLC

(***************************************************************************)
(* Bounds of the exploration.                                              *)
(***************************************************************************)
\* pending setTimeout callbacks explored at once
MaxTimers == 3
\* gallery open/close cycles explored
MaxOpens == 2
\* wake-lock sentinels the platform hands out
MaxSentinels == 2
\* adjustDelay steps explored away from the initial delay
MaxAdjust == 1
\* release() calls explored on one sentinel
MaxReleases == 2
\* video duration/currentTime values (seconds) explored by the pure checks
MaxSec == 10

(***************************************************************************)
(* JavaScript numbers.  The delays are integral doubles that may exceed    *)
(* 2^31-1 (2147483647 + 1000), which TLC's integers cannot hold, so a      *)
(* number is kept as its thousands s and a remainder m in 0..999           *)
(* (value = 1000*s + m), or NaN.                                           *)
(***************************************************************************)
Num(n) == [nan |-> FALSE, s |-> n \div 1000, m |-> n % 1000]

\* the value of a number whose thousands fit an integer
ToInt(a) == 1000 * a.s + a.m

NaN == [nan |-> TRUE, s |-> 0, m |-> 0]

\* `undefined`, as an omitted argument: only its falsiness is used
Undefined == NaN

NumLT(a, b) ==
    /\ ~a.nan
    /\ ~b.nan
    /\ (a.s < b.s \/ (a.s = b.s /\ a.m < b.m))

NumLE(a, b) ==
    /\ ~a.nan
    /\ ~b.nan
    /\ (a.s < b.s \/ (a.s = b.s /\ a.m <= b.m))

NumAdd(a, b) ==
    IF a.nan \/ b.nan THEN NaN
    ELSE [nan |-> FALSE,
          s |-> a.s + b.s + ((a.m + b.m) \div 1000),
          m |-> (a.m + b.m) % 1000]

NumSub(a, b) ==
    IF a.nan \/ b.nan THEN NaN
    ELSE [nan |-> FALSE,
          s |-> a.s - b.s + ((a.m - b.m) \div 1000),
          m |-> (a.m - b.m) % 1000]

\* a * 1000
Times1000(a) == IF a.nan THEN NaN ELSE [nan |-> FALSE, s |-> 1000 * a.s + a.m, m |-> 0]

MathMax(a, b) == IF a.nan \/ b.nan THEN NaN ELSE IF NumLT(a, b) THEN b ELSE a

MathMin(a, b) == IF a.nan \/ b.nan THEN NaN ELSE IF NumLT(b, a) THEN b ELSE a

\* a != b on numbers: NaN differs from everything, itself included
NumNE(a, b) == a.nan \/ b.nan \/ a # b

\* truthiness of a number: 0 and NaN are falsy
Truthy(a) == ~a.nan /\ a # Num(0)

isNaN(a) == a.nan

(***************************************************************************)
(* Program constants.                                                      *)
(***************************************************************************)
INT32_MAX == Num(2147483647)

MIN_DELAY == Num(1000)

DISPLAY_START_MS == 100

POLL_MS == 200

HAVE_ENOUGH_DATA == 4

NETWORK_IDLE == 1

NETWORK_LOADING == 2

KEY_STEP == 1000

defaultOptions_defaultDelayMs == 4000

(***************************************************************************)
(* localStorage item 'pswp_delay': absent (getItem gives null) or a        *)
(* string, which is either the decimal form of a number or other text.     *)
(***************************************************************************)
NoItem == [present |-> FALSE, numeric |-> FALSE, val |-> Num(0)]

OtherText == [present |-> TRUE, numeric |-> FALSE, val |-> Num(0)]

\* String(n), as setItem stores a number
String(n) == IF n.nan THEN OtherText ELSE [present |-> TRUE, numeric |-> TRUE, val |-> n]

\* Number(getItem(key)): null gives 0, non-numeric text gives NaN
Number(item) ==
    IF ~item.present THEN Num(0)
    ELSE IF item.numeric THEN item.val
    ELSE NaN

\* a || b on numbers
OrElse(a, b) == IF Truthy(a) THEN a ELSE b

(***************************************************************************)
(* Slide content, as the gallery exposes it.                               *)
(***************************************************************************)
Image(loading) ==
    [type |-> "image", loading |-> loading, paused |-> TRUE, ended |-> FALSE,
     duration |-> NaN, currentTime |-> Num(0), readyState |-> 0, networkState |-> 0]

Video(paused, ended, duration, currentTime, readyState, networkState) ==
    [type |-> "video", loading |-> FALSE, paused |-> paused, ended |-> ended,
     duration |-> duration, currentTime |-> currentTime,
     readyState |-> readyState, networkState |-> networkState]

\* the contents of the slides when the gallery shows them: an image that is
\* loaded, one that is loading, and a video playing its last frame
Contents ==
    { Image(FALSE), Image(TRUE),
      Video(FALSE, FALSE, Num(3), Num(3), HAVE_ENOUGH_DATA, NETWORK_IDLE) }

\* what a content becomes while it is shown: a loading image loads
Progress(c) ==
    IF c.type = "image" /\ c.loading THEN {[c EXCEPT !.loading = FALSE]} ELSE {}

(***************************************************************************)
(* State.                                                                  *)
(***************************************************************************)
VARIABLES
    \* the controller (this.*)
    defaultDelayMs,        \* this.options.defaultDelayMs, the effective delay
    restartOnSlideChange,  \* this.options.restartOnSlideChange
    slideshowIsRunning,
    slideshowTimerID,      \* 0 is null
    wakeLockIsRunning,
    wakeLockSentinel,      \* 0 is null, else the index of a sentinel
    \* the browser
    localStorage,          \* the item 'pswp_delay'
    timers,                \* pending setTimeout callbacks, oldest first
    progressBar,           \* the .pswp__progress-bar element
    platform,              \* "keepAwake", "wakeLock", "wakeLockQueued" or "none"
    keepAwake,             \* screen.keepAwake
    wakeLockRequests,      \* navigator.wakeLock.request() promises not settled
    sentinels,             \* the sentinels granted: status and release() calls
    \* the gallery
    galleryOpen,
    changeListeners,       \* 'change' listeners the controller has registered
    closeListeners,        \* 'close' listeners the controller has registered
    slides,                \* the contents of the gallery's slides
    currContent,           \* pswp.currSlide.content
    \* history
    lastOp,                \* the last command of the user or event of the gallery
    requested,             \* the argument of the last setSlideshowLength
    delay0,                \* the effective delay after construction
    item0,                 \* the stored item the constructor found
    toggleRun,             \* the last commands were this many toggles, from Stopped
    calls,                 \* what the advance timer's callback called, when it ran last
    estimate,              \* the last result of getSlideTimeout, applied alone
    ready                  \* the last result of slideContentHasLoaded, applied alone

vars ==
    <<defaultDelayMs, restartOnSlideChange, slideshowIsRunning, slideshowTimerID,
      wakeLockIsRunning, wakeLockSentinel, localStorage, timers, progressBar,
      platform, keepAwake, wakeLockRequests, sentinels, galleryOpen,
      changeListeners, closeListeners, slides, currContent, lastOp, requested,
      delay0, item0,
      toggleRun, calls, estimate, ready>>

\* the state the handlers read and write, as one record
Cur ==
    [defaultDelayMs |-> defaultDelayMs,
     restartOnSlideChange |-> restartOnSlideChange,
     slideshowIsRunning |-> slideshowIsRunning,
     slideshowTimerID |-> slideshowTimerID,
     wakeLockIsRunning |-> wakeLockIsRunning,
     wakeLockSentinel |-> wakeLockSentinel,
     localStorage |-> localStorage,
     timers |-> timers,
     progressBar |-> progressBar,
     platform |-> platform,
     keepAwake |-> keepAwake,
     wakeLockRequests |-> wakeLockRequests,
     sentinels |-> sentinels,
     changeListeners |-> changeListeners,
     closeListeners |-> closeListeners,
     currContent |-> currContent,
     requested |-> requested,
     nextCalls |-> 0,         \* calls of pswp.next() by the handler under way
     scheduleCalls |-> 0]     \* calls of goToNextSlideAfterTimeout by it

\* the handler leaves the state s
Becomes(s) ==
    /\ defaultDelayMs' = s.defaultDelayMs
    /\ restartOnSlideChange' = s.restartOnSlideChange
    /\ slideshowIsRunning' = s.slideshowIsRunning
    /\ slideshowTimerID' = s.slideshowTimerID
    /\ wakeLockIsRunning' = s.wakeLockIsRunning
    /\ wakeLockSentinel' = s.wakeLockSentinel
    /\ localStorage' = s.localStorage
    /\ timers' = s.timers
    /\ progressBar' = s.progressBar
    /\ platform' = s.platform
    /\ keepAwake' = s.keepAwake
    /\ wakeLockRequests' = s.wakeLockRequests
    /\ sentinels' = s.sentinels
    /\ changeListeners' = s.changeListeners
    /\ closeListeners' = s.closeListeners
    /\ currContent' = s.currContent
    /\ requested' = s.requested

(***************************************************************************)
(* setTimeout and clearTimeout.  A timer is its id, the callback it runs   *)
(* (kind, and the captured currentSlideTimeout) and its delay.             *)
(***************************************************************************)
\* an id no pending timer has and this.slideshowTimerID does not hold
FreshId(s) ==
    CHOOSE i \in 1..(Len(s.timers) + 2) :
        /\ i # s.slideshowTimerID
        /\ \A k \in DOMAIN s.timers : s.timers[k].id # i
        /\ \A j \in 1..(i - 1) :
               j = s.slideshowTimerID \/ \E k \in DOMAIN s.timers : s.timers[k].id = j

setTimeout(s, kind, delay, captured) ==
    [s EXCEPT !.timers = Append(@, [id |-> FreshId(s), kind |-> kind, delay |-> delay,
                                     captured |-> captured])]

RemoveAt(q, i) == [k \in 1..(Len(q) - 1) |-> IF k < i THEN q[k] ELSE q[k + 1]]

RECURSIVE WithoutId(_, _)
WithoutId(q, id) ==
    IF q = <<>> THEN <<>>
    ELSE IF Head(q).id = id THEN WithoutId(Tail(q), id)
    ELSE <<Head(q)>> \o WithoutId(Tail(q), id)

clearTimeout(s, id) == [s EXCEPT !.timers = WithoutId(@, id)]

\* Timers i < j were set by the same call of goToNextSlideAfterTimeout, at the
\* same instant: the advance timer and its display-start timer.  (Every later
\* call clears the advance timer first, so nothing else follows one pending.)
SameCall(q, i, j) ==
    /\ j = i + 1
    /\ q[i].kind = "advance"
    /\ q[j].kind = "display"

\* The timer at position i may fire next: none that is due no later is pending.
\* An older timer with a delay no longer is due first; so is a timer set at the
\* same instant with a shorter delay.
MayFire(q, i) ==
    \A j \in DOMAIN q :
        j # i =>
            /\ ~(j < i /\ NumLE(q[j].delay, q[i].delay))
            /\ ~(j > i /\ SameCall(q, i, j) /\ NumLT(q[j].delay, q[i].delay))

(***************************************************************************)
(* The controller's methods.                                               *)
(***************************************************************************)
\* setSlideshowLength as it would be without the Math.min of line 168
setSlideshowLengthNoUpperBound(s, newDelay) ==
    LET d == MathMax(newDelay, MIN_DELAY)
    IN  [s EXCEPT !.defaultDelayMs = d,
                  !.localStorage = IF NumNE(d, newDelay) THEN String(d) ELSE @,
                  !.requested = newDelay]

setSlideshowLength(s, newDelay) ==
    LET d == MathMin(MathMax(newDelay, MIN_DELAY), INT32_MAX)
    IN  [s EXCEPT !.defaultDelayMs = d,
                  !.localStorage = IF NumNE(d, newDelay) THEN String(d) ELSE @,
                  !.requested = newDelay]

isVideoContent(content) == content.type = "video"

\* getSlideTimeout as it would be without the paused test of line 224
getSlideTimeoutIgnoringPause(s) ==
    LET slideContent == s.currContent
    IN  IF isVideoContent(slideContent)
        THEN IF isNaN(slideContent.duration) \/ isNaN(slideContent.currentTime)
             THEN s.defaultDelayMs
             ELSE Times1000(NumSub(slideContent.duration, slideContent.currentTime))
        ELSE s.defaultDelayMs

getSlideTimeout(s) ==
    LET slideContent == s.currContent
    IN  IF isVideoContent(slideContent)
        THEN IF slideContent.paused THEN s.defaultDelayMs
             ELSE IF isNaN(slideContent.duration) \/ isNaN(slideContent.currentTime)
                  THEN s.defaultDelayMs
                  ELSE Times1000(NumSub(slideContent.duration, slideContent.currentTime))
        ELSE s.defaultDelayMs

\* slideContentHasLoaded as it would be without the networkState test of line 259
slideContentHasLoadedAnyNetworkState(s) ==
    LET slideContent == s.currContent
    IN  IF isVideoContent(slideContent)
        THEN slideContent.ended \/ slideContent.readyState = HAVE_ENOUGH_DATA
        ELSE ~slideContent.loading

slideContentHasLoaded(s) ==
    LET slideContent == s.currContent
    IN  IF isVideoContent(slideContent)
        THEN \/ slideContent.ended
             \/ /\ slideContent.readyState = HAVE_ENOUGH_DATA
                /\ slideContent.networkState \in {NETWORK_IDLE, NETWORK_LOADING}
        ELSE ~slideContent.loading

\* The bar is its class 'running' and, while it has the class, the
\* transitionDuration it animates with.  Line 334 leaves the style on the
\* element when it removes the class; nothing reads it, and it is written anew
\* each time the class is added, so the state does not keep it.
NotRunning == [running |-> FALSE, transitionDuration |-> Num(0)]

\* toggleProgressBar as it would be if it read the delay now in effect rather
\* than the duration it is handed
toggleProgressBarCurrentDelay(s, currentSlideTimeout) ==
    IF Truthy(currentSlideTimeout)
    THEN [s EXCEPT !.progressBar =
              [running |-> TRUE, transitionDuration |-> s.defaultDelayMs]]
    ELSE [s EXCEPT !.progressBar = NotRunning]

toggleProgressBar(s, currentSlideTimeout) ==
    IF Truthy(currentSlideTimeout)
    THEN [s EXCEPT !.progressBar =
              [running |-> TRUE, transitionDuration |-> currentSlideTimeout]]
    ELSE [s EXCEPT !.progressBar = NotRunning]

\* resetSlideshow as it would be without the clearTimeout of lines 385-388
resetSlideshowKeepingTimer(s) == toggleProgressBar(s, Undefined)

resetSlideshow(s) ==
    LET r == toggleProgressBar(s, Undefined)
    IN  IF r.slideshowTimerID # 0
        THEN [clearTimeout(r, r.slideshowTimerID) EXCEPT !.slideshowTimerID = 0]
        ELSE r

\* goToNextSlideAfterTimeout as it would be if the test of line 276 never let
\* it past the poll
goToNextSlideAfterTimeoutPollingOnly(s) ==
    LET r == resetSlideshow([s EXCEPT !.scheduleCalls = @ + 1])
    IN  [setTimeout(r, "poll", Num(POLL_MS), Undefined)
            EXCEPT !.slideshowTimerID = FreshId(r)]

\* lines 276-302: the timers goToNextSlideAfterTimeout sets, in the state r
\* that resetSlideshow has left
startTimers(r) ==
    IF slideContentHasLoaded(r)
    THEN LET currentSlideTimeout == getSlideTimeout(r)
             a == [setTimeout(r, "advance", currentSlideTimeout, currentSlideTimeout)
                      EXCEPT !.slideshowTimerID = FreshId(r)]
         IN  setTimeout(a, "display", Num(DISPLAY_START_MS), currentSlideTimeout)
    ELSE [setTimeout(r, "poll", Num(POLL_MS), Undefined)
             EXCEPT !.slideshowTimerID = FreshId(r)]

\* (the set binds r to the state, which is then computed once)
goToNextSlideAfterTimeout(s) ==
    CHOOSE after \in {startTimers(r) :
                         r \in {resetSlideshow([s EXCEPT !.scheduleCalls = @ + 1])}} : TRUE

\* changeSlideshowLength as it would be without the guard of lines 184-186
changeSlideshowLengthUnguarded(s, delta) ==
    LET a == setSlideshowLength(s, NumAdd(s.defaultDelayMs, delta))
        b == [a EXCEPT !.localStorage = String(a.defaultDelayMs)]
    IN  goToNextSlideAfterTimeout(b)

\* changeSlideshowLength as it would be without the setItem of line 190
changeSlideshowLengthUnsaved(s, delta) ==
    IF ~s.slideshowIsRunning THEN s
    ELSE goToNextSlideAfterTimeout(
             setSlideshowLength(s, NumAdd(s.defaultDelayMs, delta)))

changeSlideshowLength(s, delta) ==
    IF ~s.slideshowIsRunning THEN s
    ELSE LET a == setSlideshowLength(s, NumAdd(s.defaultDelayMs, delta))
             b == [a EXCEPT !.localStorage = String(a.defaultDelayMs)]
         IN  goToNextSlideAfterTimeout(b)

(***************************************************************************)
(* The wake lock.  A sentinel is "held", "releasing" (release() was called *)
(* and the platform has not yet fired 'release') or "released".            *)
(***************************************************************************)
\* the 'release' listener the controller adds to every sentinel
onSentinelRelease(s) == [s EXCEPT !.wakeLockSentinel = 0, !.wakeLockIsRunning = FALSE]

\* the continuation of release()
releaseThen(s) == [s EXCEPT !.wakeLockSentinel = 0]

\* the continuation of request(): the platform grants sentinel number id
requestThen(s, id) == [s EXCEPT !.wakeLockSentinel = id]

\* a refusal that would stop the slideshow
requestCatchStops(s) == [resetSlideshow(s) EXCEPT !.slideshowIsRunning = FALSE]

\* the rejection handler of request(): e => {}
requestCatch(s) == s

\* sentinel.release().  The platform either fires 'release' inside the call
\* ("wakeLock") or queues it ("wakeLockQueued"); on a sentinel already released
\* the promise is resolved at once and its continuation runs when the handler
\* returns.
release(s, id) ==
    LET c == [s EXCEPT !.sentinels[id].releaseCalls = @ + 1]
        status == s.sentinels[id].status
    IN  IF status = "held"
        THEN IF s.platform = "wakeLock"
             THEN releaseThen(onSentinelRelease([c EXCEPT !.sentinels[id].status = "released"]))
             ELSE [c EXCEPT !.sentinels[id].status = "releasing"]
        ELSE IF status = "releasing" THEN c
        ELSE releaseThen(c)

toggleWakeLock(s) ==
    IF s.wakeLockIsRunning = s.slideshowIsRunning THEN s
    ELSE LET t == IF s.platform = "keepAwake"
                  THEN [s EXCEPT !.keepAwake = s.slideshowIsRunning]
                  ELSE IF s.platform \in {"wakeLock", "wakeLockQueued"}
                  THEN IF s.wakeLockSentinel # 0
                       THEN release(s, s.wakeLockSentinel)
                       ELSE [s EXCEPT !.wakeLockRequests = @ + 1]
                  ELSE s
         IN  [t EXCEPT !.wakeLockIsRunning = s.slideshowIsRunning]

setSlideshowState(s) ==
    LET a == [s EXCEPT !.slideshowIsRunning = ~@]
        b == IF a.slideshowIsRunning
             THEN goToNextSlideAfterTimeout(a)
             ELSE resetSlideshow(a)
    IN  toggleWakeLock(b)

\* the 'change' listener
onChange(s) ==
    IF s.slideshowIsRunning /\ s.restartOnSlideChange
    THEN goToNextSlideAfterTimeout(s)
    ELSE s

\* the 'close' listener
onClose(s) ==
    IF s.slideshowIsRunning THEN setSlideshowState(s) ELSE s

\* init(pswp): the listeners are added to the lightbox at every 'init'
init(s) ==
    [s EXCEPT !.changeListeners = @ + 1, !.closeListeners = @ + 1]

\* the gallery dispatches an event to each of the n listeners in turn
RECURSIVE dispatchChange(_, _)
dispatchChange(s, n) ==
    IF n = 0 THEN s ELSE dispatchChange(onChange(s), n - 1)

RECURSIVE dispatchClose(_, _)
dispatchClose(s, n) ==
    IF n = 0 THEN s ELSE dispatchClose(onClose(s), n - 1)

(***************************************************************************)
(* Construction.                                                           *)
(***************************************************************************)
\* what localStorage may hold when the page loads
StoredItems ==
    { NoItem, OtherText, String(Num(0)), String(Num(-5)), String(Num(1500)),
      String(Num(2147483000)), String(Times1000(Num(3000000))) }

\* options.defaultDelayMs as the caller may configure it
ConfiguredDelays == { defaultOptions_defaultDelayMs, 500, 2147483647 }

Platforms == { "keepAwake", "wakeLock", "wakeLockQueued", "none" }

\* the constructor, for a configured delay and a stored item
constructor(configured, item, restart, api) ==
    LET s0 == [defaultDelayMs |-> Num(configured),
               restartOnSlideChange |-> restart,
               slideshowIsRunning |-> FALSE,
               slideshowTimerID |-> 0,
               wakeLockIsRunning |-> FALSE,
               wakeLockSentinel |-> 0,
               localStorage |-> item,
               timers |-> <<>>,
               progressBar |-> [running |-> FALSE, transitionDuration |-> Num(0)],
               platform |-> api,
               keepAwake |-> FALSE,
               wakeLockRequests |-> 0,
               sentinels |-> <<>>,
               changeListeners |-> 0,
               closeListeners |-> 0,
               currContent |-> Image(FALSE),
               requested |-> Num(0)]
    IN  setSlideshowLength(s0, OrElse(Number(item), Num(configured)))

\* no advance timer's callback has just run
NoCalls == [fired |-> FALSE, nextCalls |-> 0, scheduleCalls |-> 0]

Constructed(s, item, gallery) ==
    /\ slides = gallery
    /\ defaultDelayMs = s.defaultDelayMs
    /\ restartOnSlideChange = s.restartOnSlideChange
    /\ slideshowIsRunning = s.slideshowIsRunning
    /\ slideshowTimerID = s.slideshowTimerID
    /\ wakeLockIsRunning = s.wakeLockIsRunning
    /\ wakeLockSentinel = s.wakeLockSentinel
    /\ localStorage = s.localStorage
    /\ timers = s.timers
    /\ progressBar = s.progressBar
    /\ platform = s.platform
    /\ keepAwake = s.keepAwake
    /\ wakeLockRequests = s.wakeLockRequests
    /\ sentinels = s.sentinels
    /\ changeListeners = s.changeListeners
    /\ closeListeners = s.closeListeners
    /\ currContent = s.currContent
    /\ requested = s.requested
    /\ delay0 = s.defaultDelayMs
    /\ item0 = item
    /\ galleryOpen = FALSE
    /\ lastOp = "constructor"
    /\ toggleRun = 0
    /\ calls = NoCalls
    /\ estimate = Num(0)
    /\ ready = FALSE

(***************************************************************************)
(* Actions.                                                                *)
(***************************************************************************)
\* the explored part of the state space
Fits(s) ==
    /\ Len(s.timers) <= MaxTimers
    /\ s.wakeLockRequests + Len(s.sentinels) <= MaxSentinels
    /\ \A id \in DOMAIN s.sentinels : s.sentinels[id].releaseCalls <= MaxReleases
    /\ NumLE(NumSub(delay0, Num(MaxAdjust * KEY_STEP)), s.defaultDelayMs)
    /\ NumLE(s.defaultDelayMs, NumAdd(delay0, Num(MaxAdjust * KEY_STEP)))

\* a handler of a user command or a gallery event leaves the state s
Step(s, op) ==
    /\ Fits(s)
    /\ Becomes(s)
    /\ lastOp' = op
    /\ calls' = NoCalls
    /\ UNCHANGED <<slides, delay0, item0, estimate, ready>>

\* a callback of a timer or a promise, or the platform, leaves the state s
Callback(s) ==
    \E after \in {s} :
        /\ Fits(after)
        /\ Becomes(after)
        /\ UNCHANGED <<slides, delay0, item0, estimate, ready, lastOp, galleryOpen,
                       toggleRun>>

\* a callback other than the advance timer's
Async(s) ==
    /\ Callback(s)
    /\ calls' = NoCalls

\* the lightbox opens a gallery: 'init'
OpenGallery ==
    /\ ~galleryOpen
    /\ changeListeners < MaxOpens
    /\ \E c \in slides : Step(init([Cur EXCEPT !.currContent = c]), "open")
    /\ galleryOpen' = TRUE
    /\ toggleRun' = 0

\* the gallery closes: 'close'
CloseGallery ==
    /\ galleryOpen
    /\ Step(dispatchClose(Cur, closeListeners), "close")
    /\ galleryOpen' = FALSE
    /\ toggleRun' = 0

\* the button or the space key: toggle()
Toggle ==
    /\ galleryOpen
    /\ Step(setSlideshowState(Cur), "toggle")
    /\ toggleRun' = IF toggleRun = 1 THEN 2 ELSE IF ~slideshowIsRunning THEN 1 ELSE 0
    /\ UNCHANGED galleryOpen

\* the arrow, plus and minus keys: adjustDelay(delta)
AdjustDelay(delta) ==
    /\ galleryOpen
    /\ Step(changeSlideshowLength(Cur, Num(delta)), "adjustDelay")
    /\ toggleRun' = 0
    /\ UNCHANGED galleryOpen

\* the user goes to another slide: 'change'
SlideChanged ==
    /\ galleryOpen
    /\ \E c \in slides :
           Step(dispatchChange([Cur EXCEPT !.currContent = c], changeListeners), "change")
    /\ toggleRun' = 0
    /\ UNCHANGED galleryOpen

\* the content of the current slide loads or plays on
ContentProgress ==
    /\ galleryOpen
    /\ \E c \in Progress(currContent) : Async([Cur EXCEPT !.currContent = c])

\* pswp.next(): the gallery moves to another slide and dispatches 'change',
\* or has no other slide to show and dispatches nothing
next(s, moved, c) ==
    LET n == [s EXCEPT !.nextCalls = @ + 1]
    IN  IF moved
        THEN dispatchChange([n EXCEPT !.currContent = c], n.changeListeners)
        ELSE n

\* the callback of the advance timer
advanceCallback(s, moved, c) ==
    LET a == next(s, moved, c)
    IN  IF a.restartOnSlideChange THEN a ELSE goToNextSlideAfterTimeout(a)

\* the callback of the display-start timer
displayCallback(s, currentSlideTimeout) ==
    IF s.slideshowIsRunning THEN toggleProgressBar(s, currentSlideTimeout) ELSE s

AdvanceTimerFires ==
    \E i \in DOMAIN timers, moved \in BOOLEAN, c \in slides \cup {currContent} :
           /\ timers[i].kind = "advance"
           /\ MayFire(timers, i)
           /\ moved \/ c = currContent
           /\ \E s \in {advanceCallback([Cur EXCEPT !.timers = RemoveAt(@, i)], moved, c)} :
                  /\ Callback(s)
                  /\ calls' = [fired |-> TRUE, nextCalls |-> s.nextCalls,
                                scheduleCalls |-> s.scheduleCalls]

PollTimerFires ==
    \E i \in DOMAIN timers :
           /\ timers[i].kind = "poll"
           /\ MayFire(timers, i)
           /\ Async(goToNextSlideAfterTimeout([Cur EXCEPT !.timers = RemoveAt(@, i)]))

DisplayTimerFires ==
    \E i \in DOMAIN timers :
           /\ timers[i].kind = "display"
           /\ MayFire(timers, i)
           /\ Async(displayCallback([Cur EXCEPT !.timers = RemoveAt(@, i)],
                                    timers[i].captured))

\* navigator.wakeLock.request() resolves with a new sentinel
WakeLockGranted ==
    /\ wakeLockRequests > 0
    /\ LET id == Len(sentinels) + 1
           s == [Cur EXCEPT !.wakeLockRequests = @ - 1,
                            !.sentinels = Append(@, [status |-> "held", releaseCalls |-> 0])]
       IN  Async(requestThen(s, id))

\* navigator.wakeLock.request() rejects; the rejection is caught
WakeLockRefused ==
    /\ wakeLockRequests > 0
    /\ Async(requestCatch([Cur EXCEPT !.wakeLockRequests = @ - 1]))

\* the platform releases a held sentinel on its own and fires 'release'
WakeLockRevoked ==
    \E id \in DOMAIN sentinels :
        /\ sentinels[id].status = "held"
        /\ Async(onSentinelRelease([Cur EXCEPT !.sentinels[id].status = "released"]))

\* a queued release completes: 'release' fires, then the promise resolves
ReleaseCompletes ==
    \E id \in DOMAIN sentinels :
        /\ sentinels[id].status = "releasing"
        /\ Async(releaseThen(onSentinelRelease(
                     [Cur EXCEPT !.sentinels[id].status = "released"])))

\* the gallery opens and closes, the user toggles, the timers fire
Toggling ==
    \/ OpenGallery
    \/ CloseGallery
    \/ Toggle
    \/ AdvanceTimerFires
    \/ DisplayTimerFires

\* the other commands of the user
Scheduling ==
    \/ Toggling
    \/ \E delta \in {KEY_STEP, -KEY_STEP} : AdjustDelay(delta)
    \/ SlideChanged

\* the gallery's contents load
Loading ==
    \/ ContentProgress
    \/ PollTimerFires

\* the wake-lock promises settle and the platform revokes
WakeLock ==
    \/ WakeLockGranted
    \/ WakeLockRefused
    \/ WakeLockRevoked
    \/ ReleaseCompletes

(***************************************************************************)
(* Specifications.  The wake lock reads and writes nothing of the timers,  *)
(* the delay or the contents, and these nothing of the wake lock, so the   *)
(* two are explored apart.                                                 *)
(***************************************************************************)
\* The default configuration with nothing stored, where the wake lock is the
\* flag screen.keepAwake: no wake-lock promise is ever pending.
Init ==
    \E restart \in BOOLEAN :
        Constructed(constructor(defaultOptions_defaultDelayMs, NoItem, restart, "keepAwake"),
                    NoItem, Contents)

Next == Scheduling \/ Loading

Spec == Init /\ [][Next]_vars

\* Every stored item and configured delay, for a gallery of loaded images.
InitDelay ==
    \E configured \in ConfiguredDelays, item \in StoredItems, restart \in BOOLEAN :
        Constructed(constructor(configured, item, restart, "keepAwake"), item,
                    {Image(FALSE)})

NextDelay == Scheduling

SpecDelay == InitDelay /\ [][NextDelay]_vars

\* Every platform, for a gallery of loaded images whose user only toggles.
InitWakeLock ==
    \E api \in Platforms :
        Constructed(constructor(defaultOptions_defaultDelayMs, NoItem, FALSE, api),
                    NoItem, {Image(FALSE)})

NextWakeLock == Toggling \/ WakeLock

SpecWakeLock == InitWakeLock /\ [][NextWakeLock]_vars

\* The readiness poll: the user opens, closes and toggles, the contents load,
\* and every pending timer fires in the end.
NextPoll ==
    \/ Toggling
    \/ Loading

SpecPoll ==
    /\ Init
    /\ [][NextPoll]_vars
    /\ WF_vars(PollTimerFires)
    /\ WF_vars(DisplayTimerFires)
    /\ WF_vars(AdvanceTimerFires)

(***************************************************************************)
(* The two pure methods, applied alone to every content.                   *)
(***************************************************************************)
Numbers == {NaN} \cup {Num(n) : n \in 0..MaxSec}

AllContents ==
    {Image(loading) : loading \in BOOLEAN}
    \cup {Video(paused, ended, duration, currentTime, readyState, networkState) :
             paused \in BOOLEAN, ended \in BOOLEAN,
             duration \in Numbers, currentTime \in Numbers,
             readyState \in 0..HAVE_ENOUGH_DATA, networkState \in 0..3}

InitPure ==
    \E c \in AllContents, configured \in {defaultOptions_defaultDelayMs, 500} :
        Constructed([constructor(configured, NoItem, FALSE, "none")
                        EXCEPT !.currContent = c],
                    NoItem, {c})

\* getSlideTimeout() is called for the content on show
Estimate ==
    /\ estimate' = getSlideTimeout(Cur)
    /\ lastOp' = "getSlideTimeout"
    /\ Becomes(Cur)
    /\ UNCHANGED <<slides, delay0, item0, ready, galleryOpen, toggleRun, calls>>

\* slideContentHasLoaded() is called for the content on show
CheckReady ==
    /\ ready' = slideContentHasLoaded(Cur)
    /\ lastOp' = "slideContentHasLoaded"
    /\ Becomes(Cur)
    /\ UNCHANGED <<slides, delay0, item0, estimate, galleryOpen, toggleRun, calls>>

NextPure ==
    \/ Estimate
    \/ CheckReady

SpecPure == InitPure /\ [][NextPure]_vars

(***************************************************************************)
(* Properties.                                                             *)
(***************************************************************************)
\* the delay d lies in [1000, 2147483647]
WithinBounds(d) == NumLE(Num(1000), d) /\ NumLE(d, Num(2147483647))

\* the positions of the pending timers that advance the gallery: the advance
\* timer, or the poll that waits for the content before it sets one
AdvanceTimers(q) == {i \in DOMAIN q : q[i].kind \in {"advance", "poll"}}

\* C1: after construction and after any sequence of toggle and adjustDelay
\* calls, the effective delay lies in [1000, 2147483647], and it is the delay
\* requested last whenever that delay lay within the range.
C1_DelayClamped ==
    /\ WithinBounds(defaultDelayMs)
    /\ WithinBounds(requested) => defaultDelayMs = requested

\* adjustDelay asked for more than the upper bound and got the upper bound
C1_ClampedAbove ==
    /\ lastOp = "adjustDelay"
    /\ NumLT(Num(2147483647), requested)
    /\ defaultDelayMs = Num(2147483647)

\* C2: while the slideshow runs exactly one advance timer is pending, the one
\* slideshowTimerID holds.
C2_OneAdvanceTimerWhileRunning ==
    slideshowIsRunning =>
        \E i \in DOMAIN timers :
            /\ AdvanceTimers(timers) = {i}
            /\ timers[i].id = slideshowTimerID

\* no wake-lock promise is pending: every request and every release has settled
Settled ==
    /\ wakeLockRequests = 0
    /\ \A id \in DOMAIN sentinels : sentinels[id].status # "releasing"

\* C3: after two toggles in a row from Stopped the slideshow is stopped, no
\* advance timer is pending and the wake lock is inactive: the flag is off,
\* and once the promises have settled the page holds no lock, whenever they
\* settle.
C3_ToggleTwiceStops ==
    toggleRun = 2 =>
        /\ ~slideshowIsRunning
        /\ slideshowTimerID = 0
        /\ AdvanceTimers(timers) = {}
        /\ ~wakeLockIsRunning
        /\ ~keepAwake
        /\ Settled => \A id \in DOMAIN sentinels : sentinels[id].status # "held"

\* C4: when the gallery closes while the slideshow runs, the slideshow stops,
\* the advance timer is cancelled and every wake lock held at that moment gets
\* exactly one release call; when it closes while the slideshow is stopped,
\* nothing of the controller changes.
C4_CloseStopsAndReleasesOnce ==
    [][(galleryOpen /\ ~galleryOpen') =>
          IF slideshowIsRunning
          THEN /\ ~slideshowIsRunning'
               /\ slideshowTimerID' = 0
               /\ AdvanceTimers(timers') = {}
               /\ \A id \in DOMAIN sentinels :
                      sentinels[id].status = "held" =>
                          /\ sentinels[id].releaseCalls = 0
                          /\ sentinels'[id].releaseCalls = 1
          ELSE Cur' = Cur]_vars

\* C5: for content that is not a video and has loaded, the advance timer is
\* set with the effective delay and the display-start timer carries the same
\* duration; a display-start timer that fires while the slideshow runs marks
\* the bar running with the duration it carries; and with the default
\* configuration and nothing stored the delay is 4000 ms.
C5_NonVideoDuration ==
    /\ localStorage = NoItem => defaultDelayMs = Num(4000)
    /\ (currContent.type # "video" /\ ~currContent.loading) =>
           LET r == goToNextSlideAfterTimeout(Cur)
               n == Len(r.timers)
           IN  /\ r.timers[n - 1].kind = "advance"
               /\ r.timers[n - 1].id = r.slideshowTimerID
               /\ r.timers[n - 1].delay = defaultDelayMs
               /\ r.timers[n].kind = "display"
               /\ r.timers[n].captured = defaultDelayMs
    /\ \A i \in DOMAIN timers :
           (timers[i].kind = "display" /\ slideshowIsRunning
                /\ WithinBounds(timers[i].captured)) =>
               displayCallback([Cur EXCEPT !.timers = RemoveAt(@, i)],
                               timers[i].captured).progressBar
                   = [running |-> TRUE, transitionDuration |-> timers[i].captured]

\* the bar runs for 4000 ms beside the advance timer of 4000 ms
C5_BarRunsDefaultDelay ==
    /\ localStorage = NoItem
    /\ currContent.type # "video"
    /\ progressBar = [running |-> TRUE, transitionDuration |-> Num(4000)]
    /\ \E i \in DOMAIN timers :
           /\ timers[i].kind = "advance"
           /\ timers[i].id = slideshowTimerID
           /\ timers[i].delay = Num(4000)

\* C6: getSlideTimeout returns (duration - currentTime) * 1000 for a video
\* that is not paused and whose duration and currentTime are both numbers,
\* and the effective delay for everything else: a paused video, a video with
\* a NaN duration or currentTime, content that is not a video.
C6_SlideTimeout ==
    lastOp = "getSlideTimeout" =>
        LET c == currContent
        IN  IF /\ c.type = "video"
               /\ ~c.paused
               /\ ~c.duration.nan
               /\ ~c.currentTime.nan
            THEN estimate = Num((ToInt(c.duration) - ToInt(c.currentTime)) * 1000)
            ELSE estimate = defaultDelayMs

\* a playing video of 10 s at 3 s is given 7000 ms
C6_SevenSeconds ==
    /\ lastOp = "getSlideTimeout"
    /\ currContent.type = "video"
    /\ ~currContent.paused
    /\ currContent.duration = Num(10)
    /\ currContent.currentTime = Num(3)
    /\ estimate = Num(7000)

\* C7: slideContentHasLoaded holds of a video that has ended; of a video
\* that has not ended exactly when its readyState is HAVE_ENOUGH_DATA and its
\* networkState is NETWORK_IDLE or NETWORK_LOADING, and never below
\* HAVE_ENOUGH_DATA; of content that is not a video exactly when it is not
\* loading.
C7_ContentHasLoaded ==
    lastOp = "slideContentHasLoaded" =>
        LET c == currContent
        IN  /\ (c.type = "video" /\ c.ended) => ready
            /\ (c.type = "video" /\ ~c.ended /\ c.readyState < 4) => ~ready
            /\ (c.type = "video" /\ ~c.ended /\ c.readyState = 4) =>
                   (ready <=> c.networkState \in {1, 2})
            /\ c.type # "video" => (ready <=> ~c.loading)

\* a video with enough data whose network has no source is not ready
C7_EnoughDataNoSource ==
    /\ lastOp = "slideContentHasLoaded"
    /\ currContent.type = "video"
    /\ ~currContent.ended
    /\ currContent.readyState = 4
    /\ currContent.networkState = 3
    /\ ~ready

\* C8: while the slideshow is stopped adjustDelay changes nothing: not the
\* effective delay, not the stored preference, not the timers, not the bar,
\* not the wake lock.
C8_StoppedAdjustChangesNothing ==
    ~slideshowIsRunning =>
        \A delta \in {KEY_STEP, -KEY_STEP} :
            changeSlideshowLength(Cur, Num(delta)) = Cur

\* adjustDelay was called while the slideshow was stopped
C8_AdjustedWhileStopped ==
    /\ lastOp = "adjustDelay"
    /\ galleryOpen
    /\ ~slideshowIsRunning
    /\ defaultDelayMs = delay0

\* C9 as stated: the stored preference is left as it was by the constructor
\* and by every adjustDelay whose requested delay lies within the range.
C9_WrittenOnlyWhenClamped ==
    /\ []((lastOp = "constructor" /\ WithinBounds(requested)) => localStorage = item0)
    /\ [][(lastOp' = "adjustDelay" /\ WithinBounds(requested'))
              => localStorage' = localStorage]_vars

\* C9: the constructor writes the stored preference only when it clamped the
\* requested delay, and writes the bound then; every adjustDelay while the
\* slideshow runs writes the effective delay, clamped or not.
C9_WrittenByEveryAdjust ==
    /\ lastOp = "constructor" =>
           localStorage = IF WithinBounds(requested) THEN item0
                          ELSE String(defaultDelayMs)
    /\ (lastOp = "adjustDelay" /\ slideshowIsRunning) =>
           localStorage = String(defaultDelayMs)

\* adjustDelay asked for a delay within the range and it was stored
C9_StoredUnclamped ==
    /\ lastOp = "adjustDelay"
    /\ slideshowIsRunning
    /\ WithinBounds(requested)
    /\ item0 = NoItem
    /\ localStorage = String(requested)

\* C10: the slideshow runs exactly when an advance timer is pending or the
\* bar is marked running; stopped, it has neither.
C10_RunningIffTimerOrBar ==
    /\ slideshowIsRunning <=> (AdvanceTimers(timers) # {} \/ progressBar.running)
    /\ ~slideshowIsRunning => (AdvanceTimers(timers) = {} /\ ~progressBar.running)

\* the positions of the pending display-start timers
DisplayTimers(q) == {i \in DOMAIN q : q[i].kind = "display"}

\* C11: at most one display-start timer is pending at any time.
C11_OneDisplayTimer == Cardinality(DisplayTimers(timers)) <= 1

\* C12: whenever the bar is marked running, the advance timer that
\* slideshowTimerID holds is pending and was set with the duration the bar
\* animates with.
C12_BarMirrorsAdvanceTimer ==
    progressBar.running =>
        \E i \in DOMAIN timers :
            /\ timers[i].kind = "advance"
            /\ timers[i].id = slideshowTimerID
            /\ timers[i].delay = progressBar.transitionDuration

\* C13: every run of the advance timer's callback finds the slideshow
\* running, calls pswp.next() once and leads to exactly one call of
\* goToNextSlideAfterTimeout, its own or the 'change' listener's.
C13_AdvanceSchedulesOnce ==
    [][calls'.fired =>
          /\ slideshowIsRunning
          /\ calls'.nextCalls = 1
          /\ calls'.scheduleCalls = 1]_vars

\* a timer of the given kind is pending
Pending(kind) == \E i \in DOMAIN timers : timers[i].kind = kind

\* C14: called for content that is not ready, goToNextSlideAfterTimeout sets
\* the 200 ms poll and nothing else; and if from some time on the slideshow
\* runs and the content is ready, every pending poll leads to a pending
\* advance timer and to a run of the advance timer's callback, which commands
\* the gallery to advance.
C14_PollEnds ==
    /\ [](~slideContentHasLoaded(Cur) =>
             LET r == goToNextSlideAfterTimeout(Cur)
                 n == Len(r.timers)
             IN  /\ r.timers[n] = [id |-> r.slideshowTimerID, kind |-> "poll",
                                   delay |-> Num(200), captured |-> Undefined]
                 /\ AdvanceTimers(r.timers) = {n}
                 /\ DisplayTimers(r.timers) \subseteq 1..Len(timers)
                 /\ r.progressBar.running = FALSE)
    /\ <>[](slideshowIsRunning /\ slideContentHasLoaded(Cur)) =>
           /\ Pending("poll") ~> Pending("advance")
           /\ Pending("poll") ~> (calls.fired /\ calls.nextCalls = 1)

\* the content became ready while the slideshow was polling for it
C14_ReadyWhilePolling ==
    /\ slideshowIsRunning
    /\ Pending("poll")
    /\ slideContentHasLoaded(Cur)

\* C15: release() is called at most once on any sentinel.
C15_ReleasedAtMostOnce ==
    \A id \in DOMAIN sentinels : sentinels[id].releaseCalls <= 1

\* C16: when a wake-lock request is refused the slideshow still runs, and
\* its delay, its timers, the timer it holds and its bar are as they were.
C16_RefusalSwallowed ==
    [][(wakeLockRequests' = wakeLockRequests - 1 /\ sentinels' = sentinels
           /\ slideshowIsRunning) =>
          /\ slideshowIsRunning'
          /\ UNCHANGED <<defaultDelayMs, timers, slideshowTimerID, progressBar,
                         localStorage>>]_vars

\* the slideshow runs with its advance timer after its only request was refused
C16_RunningWithoutLock ==
    /\ platform \in {"wakeLock", "wakeLockQueued"}
    /\ slideshowIsRunning
    /\ toggleRun = 1
    /\ wakeLockRequests = 0
    /\ sentinels = <<>>
    /\ Pending("advance")

\* C17: pswp.next() is called only while the slideshow runs.
C17_AdvanceOnlyWhileRunning ==
    [][calls'.nextCalls > 0 => slideshowIsRunning]_vars

\* the slideshow was stopped while timers were pending, and one still is
C17_StoppedWithTimerPending ==
    /\ ~slideshowIsRunning
    /\ lastOp \in {"toggle", "close"}
    /\ timers # <<>>

\* C18: pswp.next() is called only while the content on show is ready.
C18_AdvanceOnlyWhenReady ==
    [][calls'.nextCalls > 0 => slideContentHasLoaded(Cur)]_vars

\* C19: while the slideshow is stopped and no wake-lock promise is pending,
\* the page holds no wake lock.
C19_NoLockWhileStopped ==
    (~slideshowIsRunning /\ Settled) =>
        /\ ~keepAwake
        /\ \A id \in DOMAIN sentinels : sentinels[id].status # "held"

\* C20: the controller has at most one 'change' listener and at most one
\* 'close' listener on the lightbox.
C20_OneListenerEach ==
    /\ changeListeners <= 1
    /\ closeListeners <= 1

====
